---------------------------- MODULE Spec2Model ----------------------------
(***************************************************************************)
(* A model of the on-screen keyboard of egui_keyboard                      *)
(* (src/egui_keyboard/src/lib.rs): the Keyboard struct, pump_events, show  *)
(* and the helpers show calls, with the host toolkit (egui's Context) as   *)
(* the environment.                                                        *)
(*                                                                         *)
(* f32 values are modelled as exact fractions <<n, d>>: d > 0 is a finite  *)
(* number in lowest terms, <<1, 0>> and <<-1, 0>> are the infinities and   *)
(* <<0, 0>> is NaN.  Rounding of f32 is not modelled: an equality of two   *)
(* fractions here is an equality up to floating-point rounding there.      *)
(***************************************************************************)
EXTENDS Integers, Sequences, FiniteSets, TLC

(***************************************************************************)
(* Bounds of the model.                                                    *)
(***************************************************************************)
\* a drawn grid has at most MaxRows rows and at most MaxKeys keys in all
MaxRows == 2
MaxKeys == 3
\* the available widths and heights of a drawn rectangle are 0..MaxAvail
MaxAvail == 1
\* no click enqueues an event while this many events are pending
MaxQueue == 2
\* the frames a pending event has waited are counted up to this many
MaxAge == 2

(***************************************************************************)
(* f32 arithmetic, exact: every operation without its rounding.  The same  *)
(* with the rounding of f32 is defined with RoundSpec.                     *)
(***************************************************************************)
Abs(x) == IF x < 0 THEN -x ELSE x

Sign(x) == IF x < 0 THEN -1 ELSE IF x > 0 THEN 1 ELSE 0

RECURSIVE Gcd(_, _)
Gcd(a, b) == IF b = 0 THEN a ELSE Gcd(b, a % b)

\* the fraction n/d in its canonical form
Frac(n, d) ==
    IF d = 0 THEN <<Sign(n), 0>>
    ELSE LET g == Gcd(Abs(n), Abs(d))
             s == Sign(d)
         IN  <<(s * n) \div g, (s * d) \div g>>

F(n) == <<n, 1>>

IsNaN(a) == a = <<0, 0>>

IsFinite(a) == a[2] # 0

FAdd(a, b) ==
    IF a[2] = 0 /\ b[2] = 0
    THEN (IF a = b THEN a ELSE <<0, 0>>)
    ELSE Frac(a[1] * b[2] + b[1] * a[2], a[2] * b[2])

FNeg(a) == <<-a[1], a[2]>>

FSub(a, b) == FAdd(a, FNeg(b))

FMul(a, b) == Frac(a[1] * b[1], a[2] * b[2])

FDiv(a, b) == Frac(a[1] * b[2] * (IF b[1] < 0 THEN -1 ELSE 1), a[2] * Abs(b[1]))

\* a < b, false when either is NaN
FLt(a, b) ==
    /\ ~IsNaN(a)
    /\ ~IsNaN(b)
    /\ IF a[2] = 0 \/ b[2] = 0
       THEN (IF a[2] = 0 /\ b[2] = 0 THEN a[1] < b[1]
             ELSE IF a[2] = 0 THEN a[1] < 0 ELSE b[1] > 0)
       ELSE a[1] * b[2] < b[1] * a[2]

\* f32::max: the other operand when one is NaN
FMax(a, b) ==
    IF IsNaN(a) THEN b ELSE IF IsNaN(b) THEN a ELSE IF FLt(a, b) THEN b ELSE a

RECURSIVE FSum(_)
FSum(s) == IF s = <<>> THEN F(0) ELSE FAdd(s[1], FSum(Tail(s)))

(***************************************************************************)
(* enum Key and Key::width_relative.                                       *)
(***************************************************************************)
KeyKinds == {"Text", "Backspace", "Upper", "Space", "Special"}

TextKey(label) == [kind |-> "Text", label |-> label]

PlainKey(kind) == [kind |-> kind, label |-> <<>>]

width_relative(key) ==
    CASE key.kind = "Text" -> F(1)
      [] key.kind = "Backspace" -> Frac(3, 2)
      [] key.kind = "Upper" -> Frac(3, 2)
      [] key.kind = "Space" -> F(0)
      [] key.kind = "Special" -> Frac(3, 2)

SPACE_BETWEEN_KEYS == Frac(1, 6)


(***************************************************************************)
(* The geometry show computes (lib.rs 140-150).  keys is the grid, a       *)
(* sequence of rows, each a sequence of keys.                              *)
(***************************************************************************)
RowWidths(row) == [i \in 1..Len(row) |-> width_relative(row[i])]

\* one row's term of widest_row: its keys' relative widths and len + 1 spaces
RowUnits(row) ==
    FAdd(FSum(RowWidths(row)), FMul(FAdd(F(Len(row)), F(1)), SPACE_BETWEEN_KEYS))

RECURSIVE ReduceMax(_)
ReduceMax(s) ==
    IF Len(s) = 1 THEN s[1]
    ELSE FMax(ReduceMax(SubSeq(s, 1, Len(s) - 1)), s[Len(s)])

widest_row(keys) ==
    IF keys = <<>> THEN F(0)
    ELSE ReduceMax([i \in 1..Len(keys) |-> RowUnits(keys[i])])

rows_count(keys) == F(Len(keys))

\* a mutant of button_height: the division by 3.0 left out
button_height_whole(available_height, keys) ==
    FDiv(available_height,
         FAdd(FMul(FSub(rows_count(keys), F(1)), SPACE_BETWEEN_KEYS), rows_count(keys)))

button_height(available_height, keys) ==
    FDiv(FDiv(available_height, F(3)),
         FAdd(FMul(FSub(rows_count(keys), F(1)), SPACE_BETWEEN_KEYS), rows_count(keys)))

vertical_space(height) == FMul(height, SPACE_BETWEEN_KEYS)

button_width(available_width, widest) == FDiv(available_width, widest)

horizontal_space(width) == FMul(width, SPACE_BETWEEN_KEYS)

\* the values show computes before the row loop (lib.rs 140-150)
Geometry(keys, available_width, available_height) ==
    LET widest == widest_row(keys)
        height == button_height(available_height, keys)
        width  == button_width(available_width, widest)
    IN  [widest_row |-> widest,
         available_width |-> available_width,
         button_height |-> height,
         vertical_space |-> vertical_space(height),
         button_width |-> width,
         horizontal_space |-> horizontal_space(width)]

(***************************************************************************)
(* One row of the row loop (lib.rs 159-189); g is the Geometry.            *)
(***************************************************************************)
row_buttons_width(row) == FSum(RowWidths(row))

row_total_width(row, g) ==
    FAdd(FMul(row_buttons_width(row), g.button_width),
         FMul(FAdd(F(Len(row)), F(1)), g.horizontal_space))

row_total_relative_width(row, g) == FDiv(row_total_width(row, g), g.button_width)

space_buttons_count(row) == Cardinality({i \in 1..Len(row) : row[i].kind = "Space"})

\* a mutant of space_relative_width: the division by the number of Space keys
\* left out
space_relative_width_undivided(row, g) ==
    IF space_buttons_count(row) = 0 THEN F(0)
    ELSE FSub(g.widest_row, row_total_relative_width(row, g))

space_relative_width(row, g) ==
    IF space_buttons_count(row) = 0 THEN F(0)
    ELSE FDiv(FSub(g.widest_row, row_total_relative_width(row, g)),
              F(space_buttons_count(row)))

\* a mutant of edge_space: the division by 2.0 left out
edge_space_unhalved(row, g) ==
    IF space_buttons_count(row) = 0
    THEN FAdd(FSub(g.available_width, row_total_width(row, g)), g.horizontal_space)
    ELSE g.horizontal_space

\* a mutant of edge_space: the horizontal space left out of the leading space
edge_space_bare(row, g) ==
    IF space_buttons_count(row) = 0
    THEN FDiv(FSub(g.available_width, row_total_width(row, g)), F(2))
    ELSE g.horizontal_space

edge_space(row, g) ==
    IF space_buttons_count(row) = 0
    THEN FAdd(FDiv(FSub(g.available_width, row_total_width(row, g)), F(2)),
              g.horizontal_space)
    ELSE g.horizontal_space

\* the width of the button of one key (lib.rs 178-182), given the row's
\* space_relative_width
KeyWidth(key, space_width, g) ==
    IF key.kind = "Space" THEN FMul(g.button_width, space_width)
    ELSE FMul(g.button_width, width_relative(key))

(***************************************************************************)
(* What show hands to the Ui.  A horizontal item is a space or a button, a *)
(* vertical item is a space or a row of horizontal items.                  *)
(***************************************************************************)
HSpace(w) == [t |-> "space", w |-> w, h |-> F(0), key |-> PlainKey("None"), text |-> <<>>]

HButton(key, text, w, h) == [t |-> "button", w |-> w, h |-> h, key |-> key, text |-> text]

VSpace(h) == [t |-> "space", h |-> h, items |-> <<>>]

VRow(kind, h, items) == [t |-> kind, h |-> h, items |-> items]

\* the buttons of one row with the spaces around them (lib.rs 174-189)
RowItems(row, labels, g) ==
    LET space_width == space_relative_width(row, g)
        n == Len(row)
    IN  [k \in 1..(2 * n + 1) |->
            IF k = 1 THEN HSpace(edge_space(row, g))
            ELSE IF k % 2 = 1 THEN HSpace(g.horizontal_space)
            ELSE HButton(row[k \div 2], labels[k \div 2],
                         KeyWidth(row[k \div 2], space_width, g), g.button_height)]

\* the row loop (lib.rs 155-191): an empty row is skipped, every other row is
\* followed by vertical_space
RECURSIVE RowLoop(_, _, _, _)
RowLoop(i, keys, labels, g) ==
    IF i > Len(keys) THEN <<>>
    ELSE (IF keys[i] = <<>> THEN <<>>
          ELSE <<VRow("row", g.button_height, RowItems(keys[i], labels[i], g)),
                 VSpace(g.vertical_space)>>)
         \o RowLoop(i + 1, keys, labels, g)

(***************************************************************************)
(* trim_text (lib.rs 326-336).  A text is a sequence of characters.        *)
(***************************************************************************)
Ellipsis == "..."

\* a mutant of trim_text: > for >=
RECURSIVE TrimFromLate(_, _, _, _)
TrimFromLate(n, text, max_length, result) ==
    IF n >= Len(text) THEN result
    ELSE IF n > max_length THEN Append(result, Ellipsis)
    ELSE TrimFromLate(n + 1, text, max_length, Append(result, text[n + 1]))

trim_text_late(text, max_length) == TrimFromLate(0, text, max_length, <<>>)

RECURSIVE TrimFrom(_, _, _, _)
TrimFrom(n, text, max_length, result) ==
    IF n >= Len(text) THEN result
    ELSE IF n >= max_length THEN Append(result, Ellipsis)
    ELSE TrimFrom(n + 1, text, max_length, Append(result, text[n + 1]))

trim_text(text, max_length) == TrimFrom(0, text, max_length, <<>>)

\* the length the clipboard preview is trimmed to (lib.rs 216)
ClipTrim == 20

\* button(text, None) is given no size: its minimum size is 10 x 50 and the host
\* decides the rest (lib.rs 73-79)
ClipMinWidth == 10
ClipMinHeight == 50

NoText == <<"none">>

\* clipboard_key (lib.rs 212-224) as rendered: nothing without a clipboard text
ClipboardItems(clip, g) ==
    IF clip = NoText THEN <<>>
    ELSE <<VRow("clipboard", F(ClipMinHeight),
                <<HSpace(g.horizontal_space),
                  HButton(PlainKey("Clipboard"), trim_text(clip, ClipTrim),
                          F(ClipMinWidth), F(ClipMinHeight))>>),
           VSpace(g.vertical_space)>>

\* everything the window's closure adds to the Ui (lib.rs 136-192)
Render(keys, labels, clip, available_width, available_height) ==
    LET g == Geometry(keys, available_width, available_height)
    IN  <<VSpace(g.vertical_space)>> \o ClipboardItems(clip, g) \o RowLoop(1, keys, labels, g)

(***************************************************************************)
(* The layout provider (mod layouts, not among the sources): get_keys is a *)
(* pure function of the two flags.  A layout is the function itself.       *)
(***************************************************************************)
Modes == BOOLEAN \X BOOLEAN

get_keys(layout, up, sp) == layout[<<up, sp>>]

KeyA == TextKey(<<"a">>)

\* a layout with every kind of key, a widest row, a narrower row without a
\* Space key and a row with one
SampleLayout ==
    [m \in Modes |->
        LET letter == IF m[2] THEN TextKey(<<"1">>)
                      ELSE IF m[1] THEN TextKey(<<"A">>) ELSE KeyA
        IN  << <<letter, PlainKey("Backspace")>>,
               <<PlainKey("Upper"), PlainKey("Space"), PlainKey("Special")>> >>]

\* the glyphs Keyboard::new is given (lib.rs 60-66)
shift_characters == <<"shift0", "shift1">>
backspace_character == "backspace"

\* the text on the button of a key (lib.rs 178-182, 254-258, 272-276, 292)
Label(key, up, sp) ==
    CASE key.kind = "Text" -> key.label
      [] key.kind = "Space" -> <<" ">>
      [] key.kind = "Backspace" -> <<backspace_character>>
      [] key.kind = "Upper" -> IF up THEN <<shift_characters[1]>> ELSE <<shift_characters[2]>>
      [] key.kind = "Special" -> IF sp THEN <<"A", "B", "C">> ELSE <<"!", "#", "1">>

Labels(keys, up, sp) ==
    [i \in 1..Len(keys) |-> [j \in 1..Len(keys[i]) |-> Label(keys[i][j], up, sp)]]

(***************************************************************************)
(* egui::Event, as far as the keyboard makes them.                         *)
(***************************************************************************)
EventText(text) ==
    [type |-> "Text", text |-> text, key |-> "None", pressed |-> FALSE,
     repeat |-> FALSE, modifiers |-> "NONE", physical_key |-> "None"]

EventKey(key) ==
    [type |-> "Key", text |-> <<>>, key |-> key, pressed |-> TRUE,
     repeat |-> FALSE, modifiers |-> "NONE", physical_key |-> "None"]

(***************************************************************************)
(* The state.  An Option is a sequence of length at most one.              *)
(***************************************************************************)
VARIABLES
    input_widget,     \* Keyboard.input_widget: Option<Id>
    events,           \* Keyboard.events: the pending events
    upper,            \* Keyboard.upper
    special,          \* Keyboard.special
    keyboard_layout,  \* Keyboard.keyboard_layout
    needed,           \* Keyboard.needed
    last_rect,        \* Keyboard.last_rect: Option<Rect>, a Rect is <<width, height>>
    input_events,     \* the host's input.events of the running frame
    available_rect,   \* the host's available rectangle, <<width, height>>
    ui,               \* what the latest show call added to the Ui; <<>> when it rendered nothing
    focus_requests,   \* the ids the latest show call passed to memory.request_focus
    repaint,          \* whether the latest show call called request_repaint
    ime,              \* the host's output.ime: "Some" or "None"
    clicked,          \* the button that was clicked in the latest show call
    focus_read,       \* what memory.focused() returned to the latest show call
    clipboard,        \* what clipboard::get_text() returned to the latest show call
    pointer_over,     \* what response.contains_pointer() returned to the latest show
                      \* call; FALSE when that call rendered nothing
    safe_rect_call,   \* the latest safe_rect call: the screen rectangle it was given
                      \* and the rectangle it returned; None before any call
    shown_height,     \* history: the height of the rectangle the keyboard took in the
                      \* latest show call, None when that call rendered nothing (and
                      \* before any call)
    ui_f32,           \* the rows of the latest show call with the values the f32
                      \* arithmetic of the row loop gives their paddings and widths;
                      \* followed under RoundSpec only, <<>> elsewhere
    quiet,            \* history: the show calls since the latest one in which the host
                      \* wanted keyboard input, counted up to HoldFrames + 1 (the
                      \* value before any such call)
    ages,             \* history: for each pending event, the frames begun since its click
    input_ages,       \* history: the same for each event of input_events, as pumped
    shift_clicks,     \* history: the clicks on the shift key so far, modulo 2
    pc                \* "begin": the frame has begun; "pumped": pump_events has run in it
                      \* before show; "shown": show has run in it

vars == <<input_widget, events, upper, special, keyboard_layout, needed, last_rect,
          input_events, available_rect, ui, focus_requests, repaint, ime, clicked,
          focus_read, clipboard, pointer_over, safe_rect_call, shown_height, ui_f32,
          quiet, ages, input_ages, shift_clicks, pc>>

Ids == {1, 2}

None == <<>>

Some(x) == <<x>>

NoKey == PlainKey("None")

ClipboardKey == PlainKey("Clipboard")

\* the number of frames the keyboard is held (lib.rs 310)
HoldFrames == 20

\* Keyboard::default() (lib.rs 40-57) with the layout and the host's rectangle given
InitWith(layouts, rects) ==
    /\ input_widget = None
    /\ events = <<>>
    /\ upper = FALSE
    /\ special = FALSE
    /\ keyboard_layout \in layouts
    /\ needed = 0
    /\ last_rect = None
    /\ input_events = <<>>
    /\ available_rect \in rects
    /\ ui = <<>>
    /\ focus_requests = <<>>
    /\ repaint = FALSE
    /\ ime = "None"
    /\ clicked = NoKey
    /\ focus_read = None
    /\ clipboard = NoText
    /\ pointer_over = FALSE
    /\ safe_rect_call = None
    /\ shown_height = None
    /\ ui_f32 = <<>>
    /\ quiet = HoldFrames + 1
    /\ ages = <<>>
    /\ input_ages = <<>>
    /\ shift_clicks = 0
    /\ pc = "begin"

(***************************************************************************)
(* The helpers of show.                                                    *)
(***************************************************************************)
\* a mutant of remember_input_widget: the test of wants_keyboard_input left out
remember_always(wants, focused, widget) == focused

\* remember_input_widget (lib.rs 227-231): the new input_widget
remember_input_widget(wants, focused, widget) == IF wants THEN focused ELSE widget

\* a mutant of saturating_sub: nothing is subtracted
saturating_keep(n) == n

\* u32::saturating_sub(1)
saturating_sub(n) == IF n > 0 THEN n - 1 ELSE 0

\* a mutant of needed_after: the counter is not set to 20
needed_after_unset(wants, n) == saturating_sub(n)

\* keyboard_input_needed (lib.rs 308-322): the new self.needed, then the result
needed_after(wants, n) == IF wants THEN HoldFrames ELSE saturating_sub(n)

\* mutants of keyboard_input_needed: >= for >, and the counter tested before
\* it is decremented
keyboard_input_needed_ge(wants, n) == IF wants THEN TRUE ELSE needed_after(wants, n) >= 0

keyboard_input_needed_stale(wants, n) == IF wants THEN TRUE ELSE n > 0

keyboard_input_needed(wants, n) == IF wants THEN TRUE ELSE needed_after(wants, n) > 0

\* a mutant of focus_back_to_input_widget: no request is made
focus_back_nowhere(widget) == <<>>

\* focus_back_to_input_widget (lib.rs 234-238): the request_focus calls it makes
focus_back_to_input_widget(widget) == IF widget # None THEN <<widget[1]>> ELSE <<>>

\* a mutant of ClickEvents: the Space key pushes its (empty) label
ClickEvents_label(key, clip) ==
    CASE key.kind = "Text" -> <<EventText(key.label)>>
      [] key.kind = "Space" -> <<EventText(key.label)>>
      [] key.kind = "Backspace" -> <<EventKey("Backspace")>>
      [] key.kind = "Clipboard" -> <<EventText(clip)>>
      [] OTHER -> <<>>

\* the events a clicked button pushes: text_key and backspace_key through key
\* (lib.rs 240-251, 289-306), clipboard_key (lib.rs 216-219); the two layout
\* keys push none (lib.rs 253-287)
ClickEvents(key, clip) ==
    CASE key.kind = "Text" -> <<EventText(key.label)>>
      [] key.kind = "Space" -> <<EventText(<<" ">>)>>
      [] key.kind = "Backspace" -> <<EventKey("Backspace")>>
      [] key.kind = "Clipboard" -> <<EventText(clip)>>
      [] OTHER -> <<>>

\* a mutant of upper_after: the flag is set, not flipped
upper_after_set(key, up) == IF key.kind = "Upper" THEN TRUE ELSE up

\* upper_layout_key and special_layout_key flip their flag on a click
upper_after(key, up) == IF key.kind = "Upper" THEN ~up ELSE up

special_after(key, sp) == IF key.kind = "Special" THEN ~sp ELSE sp

\* a mutant of ClickFocus: the two layout keys do not restore the focus
ClickFocus_events_only(key, widget) ==
    IF key = NoKey \/ key.kind \in {"Upper", "Special"} THEN <<>>
    ELSE focus_back_to_input_widget(widget)

\* every clicked button ends with focus_back_to_input_widget
ClickFocus(key, widget) ==
    IF key = NoKey THEN <<>> ELSE focus_back_to_input_widget(widget)

\* the buttons the closure renders: the clipboard preview when there is a
\* clipboard text, and every key of the grid
Buttons(keys, clip) ==
    (IF clip = NoText THEN {} ELSE {ClipboardKey})
    \cup UNION {{keys[i][j] : j \in 1..Len(keys[i])} : i \in 1..Len(keys)}

\* the heights of the items, summed from the last one up; the sum of the rest
\* is taken once for every item
RECURSIVE ContentHeight(_)
ContentHeight(items) ==
    IF items = <<>> THEN F(0)
    ELSE CHOOSE sum \in {FAdd(items[1].h, rest) : rest \in {ContentHeight(Tail(items))}} : TRUE

\* the rectangle of the window: as wide as it is fixed to (lib.rs 134), as
\* high as its content
WindowRect(items) == <<available_rect[1], ContentHeight(items)>>

\* the clipboard texts of the model: a short one and one longer than ClipTrim
ShortClip == <<"x", "y">>
LongClip == [i \in 1..(ClipTrim + 2) |-> IF i % 2 = 0 THEN "y" ELSE "x"]
ClipTexts == {ShortClip, LongClip}

(***************************************************************************)
(* Keyboard::show (lib.rs 122-210).  The host gives: wants, what           *)
(* ctx.wants_keyboard_input() returns; focused, memory.focused(), read     *)
(* only when wants; click, the button whose clicked() is true (the host    *)
(* reports at most one click in a frame), NoKey for none; pointer,         *)
(* response.contains_pointer(); clip, clipboard::get_text(); items, what   *)
(* the window's closure renders with that clipboard text.  Window::show    *)
(* returns Some: the window is never closed.                               *)
(***************************************************************************)
ShowRounded(wants, focused, click, pointer, clip, items, rounded) ==
    LET widget   == remember_input_widget(wants, focused, input_widget)
        isNeeded == keyboard_input_needed(wants, needed)
    IN  /\ pc \in {"begin", "pumped"}
        /\ pc' = "shown"
        /\ ui_f32' = rounded
        /\ input_widget' = widget
        /\ needed' = needed_after(wants, needed)
        /\ repaint' = isNeeded
        /\ focus_read' = focused
        /\ clipboard' = clip
        /\ pointer_over' = pointer
        /\ quiet' = IF wants THEN 0 ELSE IF quiet > HoldFrames THEN quiet ELSE quiet + 1
        /\ IF isNeeded
           THEN /\ ClickEvents(click, clip) # <<>> => Len(events) < MaxQueue
                /\ ui' = items
                /\ events' = events \o ClickEvents(click, clip)
                /\ ages' = ages \o [i \in 1..Len(ClickEvents(click, clip)) |-> 0]
                /\ shift_clicks' = IF click.kind = "Upper" THEN 1 - shift_clicks
                                   ELSE shift_clicks
                /\ upper' = upper_after(click, upper)
                /\ special' = special_after(click, special)
                /\ last_rect' = Some(WindowRect(items))
                /\ shown_height' = Some(last_rect'[1][2])
                /\ focus_requests' =
                       ClickFocus(click, widget)
                       \o (IF pointer THEN focus_back_to_input_widget(widget) ELSE <<>>)
                /\ ime' = "None"
                /\ clicked' = click
           ELSE /\ click = NoKey
                /\ ~pointer
                /\ clip = NoText
                /\ ui' = <<>>
                /\ last_rect' = None
                /\ shown_height' = None
                /\ focus_requests' = <<>>
                /\ clicked' = NoKey
                /\ UNCHANGED <<events, upper, special, ime, ages, shift_clicks>>
        /\ UNCHANGED <<keyboard_layout, input_events, available_rect, input_ages,
                       safe_rect_call>>

\* show where the f32 values of the rows are not followed
Show(wants, focused, click, pointer, clip, items) ==
    ShowRounded(wants, focused, click, pointer, clip, items, ui_f32)

\* a mutant of mem_take: the queue is cloned, not taken
mem_clone(queue) == queue

\* std::mem::take(&mut self.events): what it leaves in self.events
mem_take(queue) == <<>>

\* Keyboard::pump_events (lib.rs 84-86)
PumpEvents ==
    /\ input_events' = input_events \o events
    /\ input_ages' = input_ages \o ages
    /\ events' = mem_take(events)
    /\ ages' = [i \in 1..Len(mem_take(events)) |-> ages[i]]
    /\ pc' = IF pc = "begin" THEN "pumped" ELSE pc
    /\ UNCHANGED <<input_widget, upper, special, keyboard_layout, needed, last_rect,
                   available_rect, ui, focus_requests, repaint, ime, clicked,
                   focus_read, clipboard, pointer_over, safe_rect_call, shown_height,
                   ui_f32, quiet, shift_clicks>>

\* the host begins a frame: a new input.events (no hardware keyboard: empty),
\* an empty Ui, and, from a focused text field, a request for the native
\* input method; requests and over are what the new frame still holds of the
\* last show call's focus requests and pointer
BeginFrameWith(requests, over) ==
    /\ input_events' = <<>>
    /\ ui' = <<>>
    /\ focus_requests' = requests
    /\ pointer_over' = over
    /\ repaint' = FALSE
    /\ clicked' = NoKey
    /\ focus_read' = None
    /\ clipboard' = NoText
    /\ ime' = "Some"
    /\ input_ages' = <<>>
    /\ ages' = [i \in 1..Len(ages) |-> IF ages[i] < MaxAge THEN ages[i] + 1 ELSE ages[i]]
    /\ pc' = "begin"
    /\ UNCHANGED <<input_widget, events, upper, special, keyboard_layout, needed,
                   last_rect, available_rect, quiet, shift_clicks, safe_rect_call,
                   shown_height, ui_f32>>

\* a frame that holds nothing of the last one
BeginFrame == BeginFrameWith(<<>>, FALSE)

\* a mutant of safe_rect: the screen rectangle whatever last_rect is
safe_rect_full(screen, last) == screen

\* Keyboard::safe_rect (lib.rs 108-119): what it returns.  A screen rectangle
\* is [min |-> <<x, y>>, max |-> <<x, y>>]; last is self.last_rect, whose
\* height() is its second component.
safe_rect(screen, last) ==
    IF last # None
    THEN [min |-> screen.min,
          max |-> <<FSub(screen.max[1], F(0)), FSub(screen.max[2], last[1][2])>>]
    ELSE screen

\* what ctx.screen_rect() returns
Screens ==
    {[min |-> <<F(0), F(0)>>, max |-> <<F(w), F(h)>>] :
        w \in 1..(MaxAvail + 1), h \in 1..(MaxAvail + 1)}

\* a call of safe_rect (&self: it writes nothing)
SafeRectCall ==
    /\ \E screen \in Screens :
           safe_rect_call' = Some([screen |-> screen, result |-> safe_rect(screen, last_rect)])
    /\ UNCHANGED <<input_widget, events, upper, special, keyboard_layout, needed,
                   last_rect, input_events, available_rect, ui, focus_requests, repaint,
                   ime, clicked, focus_read, clipboard, pointer_over, shown_height,
                   ui_f32, quiet, ages, input_ages, shift_clicks, pc>>

Focusable == {None} \cup {Some(i) : i \in Ids}

\* a show call with whatever the host gives it, the clipboard among clips; the
\* grid and what is rendered are computed once
ShowAmong(clips) ==
    \E clip \in clips :
        \E keys \in {get_keys(keyboard_layout, upper, special)} :
            \E items \in {Render(keys, Labels(keys, upper, special), clip,
                                  available_rect[1], available_rect[2])} :
                \E wants \in BOOLEAN, pointer \in BOOLEAN,
                   click \in Buttons(keys, clip) \cup {NoKey} :
                    \E focused \in IF wants THEN Focusable ELSE {None} :
                        Show(wants, focused, click, pointer, clip, items)

ShowCall == ShowAmong(ClipTexts \cup {NoText})

UnitRect == <<F(1), F(1)>>

Init == InitWith({SampleLayout}, {UnitRect})

\* any interleaving of the four
Next == BeginFrame \/ PumpEvents \/ ShowCall \/ SafeRectCall

Spec == Init /\ [][Next]_vars

\* the application as documented: pump_events first in every frame, then show
FrameNext ==
    \/ pc = "shown" /\ BeginFrame
    \/ pc = "begin" /\ PumpEvents
    \/ pc = "pumped" /\ ShowCall

FrameSpec == Init /\ [][FrameNext]_vars

(***************************************************************************)
(* The layout alone: any grid within the bounds, whatever the flags, and   *)
(* any available rectangle; the host wants keyboard input and nothing is   *)
(* clicked: the first show call of the application.                        *)
(***************************************************************************)
\* one key of each relative width (lib.rs 25-33): Text is 1.0, Backspace is
\* 1.5 as Upper and Special are, and Space stretches
LayoutKeys == {KeyA, PlainKey("Backspace"), PlainKey("Space")}

RowsUpTo(k) == UNION {[1..n -> LayoutKeys] : n \in 0..k}

\* the grids of r rows with at most k keys
RECURSIVE GridsOf(_, _)
GridsOf(r, k) ==
    IF r = 0 THEN {<<>>}
    ELSE UNION {{<<row>> \o g : g \in GridsOf(r - 1, k - Len(row))} : row \in RowsUpTo(k)}

Grids == UNION {GridsOf(r, MaxKeys) : r \in 0..MaxRows}

Rects == {<<F(w), F(h)>> : w \in 0..MaxAvail, h \in 0..MaxAvail}

LayoutInit == InitWith({[m \in Modes |-> g] : g \in Grids}, Rects)

LayoutShow ==
    /\ pc = "begin"
    /\ \E clip \in {NoText, ShortClip} :
           \E keys \in {get_keys(keyboard_layout, upper, special)} :
               \E items \in {Render(keys, Labels(keys, upper, special), clip,
                                     available_rect[1], available_rect[2])} :
                   Show(TRUE, None, NoKey, FALSE, clip, items)

LayoutSpec == LayoutInit /\ [][LayoutShow]_vars

(***************************************************************************)
(* The claims.  C1 to C8 are stated of FrameSpec, C9 to C14 of LayoutSpec, *)
(* each later one of the specification defined with it.                    *)
(***************************************************************************)
Rendered == ui # <<>>

\* C1 as stated: after a show call in which the host wants keyboard input,
\* followed only by calls in which it does not, the keyboard is rendered on
\* exactly the next 20 of those calls and not from the 21st on.
C1_HeldTwentyCalls == pc = "shown" => (Rendered <=> quiet <= HoldFrames)

\* C1, amended: it is rendered on exactly the next 19 of those calls
\* (HoldFrames - 1) and not from the 20th on: the call that wants input sets
\* the counter to 20 and each later call decrements it before testing it.
C1_HeldNineteenCalls == pc = "shown" => (Rendered <=> quiet < HoldFrames)

\* the 20th call after the one that wanted input has run and rendered nothing
C1_Witness == pc = "shown" /\ quiet = HoldFrames /\ ~Rendered /\ needed = 0

\* C2: a show call in which the host wants keyboard input renders the
\* keyboard in that call and sets the counter to 20, whatever the state before.
C2_WantsRenders == (pc = "shown" /\ quiet = 0) => (Rendered /\ needed = HoldFrames)

C2_Witness == pc = "shown" /\ quiet = 0 /\ Rendered /\ needed = HoldFrames

\* C3: with pump_events first in every frame and then show, an event is in the
\* host's input stream only one frame after its click: never in the frame of
\* the click (what is pending after show has age 0 and is not in the stream)
\* and never later (pump_events leaves nothing pending).
C3_DeferredOneFrame ==
    /\ Len(input_ages) = Len(input_events)
    /\ Len(ages) = Len(events)
    /\ \A i \in 1..Len(input_ages) : input_ages[i] = 1
    /\ pc = "shown" => \A i \in 1..Len(ages) : ages[i] = 0
    /\ pc = "pumped" => events = <<>>
    /\ pc = "begin" => input_events = <<>>

\* a frame in which last frame's click has been delivered and this frame's is pending
C3_Witness == pc = "shown" /\ input_events # <<>> /\ events # <<>>

\* C4: a click appends exactly the events of the mapping: Text(label) one text
\* event with the label, Space one text event with one space, Backspace one key
\* event for Backspace, pressed, no repeat, no modifiers; the two toggles and a
\* frame without a click append nothing.
C4_Expected(key, appended) ==
    CASE key.kind = "Text" ->
            /\ Len(appended) = 1
            /\ appended[1].type = "Text"
            /\ appended[1].text = key.label
      [] key.kind = "Space" ->
            /\ Len(appended) = 1
            /\ appended[1].type = "Text"
            /\ appended[1].text = <<" ">>
      [] key.kind = "Backspace" ->
            /\ Len(appended) = 1
            /\ appended[1].type = "Key"
            /\ appended[1].key = "Backspace"
            /\ appended[1].pressed
            /\ ~appended[1].repeat
            /\ appended[1].modifiers = "NONE"
      [] key.kind = "Clipboard" -> TRUE
      [] OTHER -> appended = <<>>

C4_ClickAppends ==
    [][pc' = "shown" =>
        /\ Len(events') >= Len(events)
        /\ SubSeq(events', 1, Len(events)) = events
        /\ C4_Expected(clicked', SubSeq(events', Len(events) + 1, Len(events')))]_vars

C4_Witness ==
    /\ pc = "shown"
    /\ clicked.kind = "Backspace"
    /\ events = <<EventKey("Backspace")>>

\* C5: every click on a button asks, in that call, for the focus to go to the
\* remembered widget when there is one; without one nothing is asked, and the
\* click enqueues its event or flips its flag all the same.
C5_ClickRestoresFocus ==
    [][(pc' = "shown" /\ clicked' # NoKey) =>
        /\ input_widget' # None =>
              /\ focus_requests' # <<>>
              /\ \A i \in 1..Len(focus_requests') : focus_requests'[i] = input_widget'[1]
        /\ input_widget' = None => focus_requests' = <<>>
        /\ upper' = (IF clicked'.kind = "Upper" THEN ~upper ELSE upper)
        /\ special' = (IF clicked'.kind = "Special" THEN ~special ELSE special)
        /\ Len(events') = Len(events) +
              (IF clicked'.kind \in {"Text", "Space", "Backspace", "Clipboard"} THEN 1 ELSE 0)]_vars

C5_Witness ==
    /\ pc = "shown"
    /\ clicked.kind = "Special"
    /\ input_widget # None
    /\ focus_requests = <<input_widget[1]>>

\* C6: a show call changes the remembered widget only if the host wants
\* keyboard input, and then to the focused widget, read before anything is
\* rendered; no click and no other step changes it.
C6_RememberOnlyWhenWanted ==
    [][IF pc' = "shown" /\ quiet' = 0
       THEN input_widget' = focus_read'
       ELSE input_widget' = input_widget]_vars

\* a click in a frame of the hold, the remembered widget still there
C6_Witness ==
    /\ pc = "shown"
    /\ quiet > 0
    /\ clicked # NoKey
    /\ input_widget # None

\* C7: last_rect is None exactly when the counter is 0, which after a show call
\* is exactly when that call rendered nothing; the counter is never negative.
C7_RectIffVisible ==
    /\ needed >= 0
    /\ last_rect = None <=> needed = 0
    /\ pc = "shown" => (~Rendered <=> last_rect = None)

\* the call in which the keyboard disappears
C7_Witness == pc = "shown" /\ quiet = HoldFrames /\ last_rect = None /\ needed = 0

\* C8: a click on the shift key flips upper, leaves special alone and enqueues
\* nothing; nothing else changes upper, so upper is back at its first value
\* after every second click.
C8_ShiftToggles ==
    [][/\ upper' = (shift_clicks' = 1)
       /\ (pc' = "shown" /\ clicked'.kind = "Upper") =>
              /\ upper' = ~upper
              /\ special' = special
              /\ events' = events
       /\ ~(pc' = "shown" /\ clicked'.kind = "Upper") => upper' = upper]_vars

\* the second click has been made
C8_Witness == pc = "shown" /\ clicked.kind = "Upper" /\ shift_clicks = 0 /\ ~upper

(***************************************************************************)
(* The rows show rendered, read from the Ui.                               *)
(***************************************************************************)
UiRows == {i \in 1..Len(ui) : ui[i].t = "row"}

Widths(items) == [k \in 1..Len(items) |-> items[k].w]

\* the sum of all widths of a rendered row
RowSum(items) == FSum(Widths(items))

Leading(items) == items[1].w

Trailing(items) == items[Len(items)].w

HasSpaceKey(items) == \E k \in 1..Len(items) : items[k].key.kind = "Space"

AvailableWidth == available_rect[1]

AvailableHeight == available_rect[2]

Grid == get_keys(keyboard_layout, upper, special)

HasClipboardRow == \E i \in 1..Len(ui) : ui[i].t = "clipboard"

Third == FDiv(AvailableHeight, F(3))

\* C10 as stated, in the case it singles out (no clipboard row; no row empty,
\* a positive available height): for a grid of N >= 1 rows everything show
\* stacks (the top padding, every row, the space after each row) is one third
\* of the available height high.
C10_FillsThird ==
    (/\ Rendered
     /\ Len(Grid) >= 1
     /\ \A i \in 1..Len(Grid) : Grid[i] # <<>>
     /\ ~HasClipboardRow
     /\ FLt(F(0), AvailableHeight)) => ContentHeight(ui) = Third

\* C10, amended: for a grid of N >= 1 rows, none of them empty, and no
\* clipboard row, the N rows and the N - 1 spaces between them are one third
\* of the available height high; the top padding and the space after the last
\* row come on top of it, so everything is the third and two vertical spaces.
C10_ThirdPlusPadding ==
    (/\ Rendered
     /\ Len(Grid) >= 1
     /\ \A i \in 1..Len(Grid) : Grid[i] # <<>>
     /\ ~HasClipboardRow) =>
        \A space \in {ui[1].h}, height \in {ContentHeight(ui)} :
            /\ Len(ui) = 2 * Len(Grid) + 1
            /\ \A i \in 1..Len(ui) : i % 2 = 1 => (ui[i].t = "space" /\ ui[i].h = space)
            /\ FSub(height, FMul(F(2), space)) = Third
            /\ height = FAdd(Third, FMul(F(2), space))
            /\ FMul(space, F(7 * Len(Grid) - 1)) = Third

\* two rows rendered in a rectangle of positive height, no clipboard row
C10_Witness ==
    /\ Rendered
    /\ Len(Grid) = 2
    /\ \A i \in 1..Len(Grid) : Grid[i] # <<>>
    /\ ~HasClipboardRow
    /\ FLt(F(0), AvailableHeight)

(***************************************************************************)
(* The rendered rows against the rows of the grid: the k-th rendered row   *)
(* is the k-th non-empty row of the grid.                                  *)
(***************************************************************************)
IsRow(item) == item.t = "row"

NonEmpty(row) == row # <<>>

UiRowSeq == SelectSeq(ui, IsRow)

GridRowSeq == SelectSeq(Grid, NonEmpty)

WidestUnits == widest_row(Grid)

\* the width of one relative unit
UnitWidth == FDiv(AvailableWidth, WidestUnits)

\* by how much a row falls short of the widest row, in relative units
Deficit(row) == FSub(WidestUnits, RowUnits(row))

SpaceButtons(items) == {k \in 1..Len(items) : items[k].key.kind = "Space"}

\* every Space key of every rendered row closes its share of the row's deficit
StretchClosesDeficit ==
    /\ Len(UiRowSeq) = Len(GridRowSeq)
    /\ \A j \in 1..Len(UiRowSeq) :
          \A items \in {UiRowSeq[j].items}, row \in {GridRowSeq[j]} :
              SpaceButtons(items) # {} =>
                  /\ \A k \in SpaceButtons(items) :
                        /\ FDiv(items[k].w, UnitWidth)
                               = FDiv(Deficit(row), F(space_buttons_count(row)))
                        /\ items[k].w
                               = FMul(UnitWidth, FDiv(Deficit(row), F(space_buttons_count(row))))
                  /\ FDiv(RowSum(items), UnitWidth) = WidestUnits

LastKeyEnd(items) == FSub(RowSum(items), Trailing(items))

\* C12: in every rendered row without a Space key the gap from the left edge
\* of the available width to the first key equals the gap from the last key
\* to the right edge of the available width.
C12_Centered ==
    \A i \in UiRows :
        ~HasSpaceKey(ui[i].items) =>
            Leading(ui[i].items) = FSub(AvailableWidth, LastKeyEnd(ui[i].items))

\* a row without a Space key, narrower than another row, has been rendered in
\* a positive width: its leading space is more than the trailing one
C12_Witness ==
    /\ FLt(F(0), AvailableWidth)
    /\ \E i \in UiRows :
          /\ ~HasSpaceKey(ui[i].items)
          /\ FLt(Trailing(ui[i].items), Leading(ui[i].items))

\* the geometry show would compute for the grid with its empty rows removed
SkippedGeometry == Geometry(GridRowSeq, AvailableWidth, AvailableHeight)

\* C13 as stated, where at least one row is rendered in a rectangle of
\* positive width and height: the rendered rows are the non-empty rows of the
\* grid, and row height, vertical spacing, key widths and horizontal spacing
\* are those of the grid with its empty rows removed.
C13_EmptyRowsSkipped ==
    (/\ UiRows # {}
     /\ FLt(F(0), AvailableWidth)
     /\ FLt(F(0), AvailableHeight)) =>
        \A g \in {SkippedGeometry} :
            /\ Len(UiRowSeq) = Len(GridRowSeq)
            /\ \A i \in 1..Len(ui) :
                  /\ ui[i].t = "row" => ui[i].h = g.button_height
                  /\ ui[i].t = "space" => ui[i].h = g.vertical_space
            /\ \A j \in 1..Len(UiRowSeq) :
                  Widths(UiRowSeq[j].items)
                      = Widths(RowItems(GridRowSeq[j],
                                        Labels(GridRowSeq, upper, special)[j], g))

\* a size that is a number and not below zero
IsSize(a) == IsFinite(a) /\ ~FLt(a, F(0))

\* C14 as stated, in a rectangle of positive width and height: for a
\* degenerate grid (no rows: the only grid whose widest row counts zero units)
\* the button width, the button height and the two spacings show computes are
\* zero, and every height it hands to the Ui is a number and not negative.
C14_DegenerateIsZero ==
    (/\ Rendered
     /\ WidestUnits = F(0)
     /\ FLt(F(0), AvailableWidth)
     /\ FLt(F(0), AvailableHeight)) =>
        \A g \in {Geometry(Grid, AvailableWidth, AvailableHeight)} :
            /\ g.button_width = F(0)
            /\ g.button_height = F(0)
            /\ g.vertical_space = F(0)
            /\ g.horizontal_space = F(0)
            /\ \A i \in 1..Len(ui) : IsSize(ui[i].h)
            /\ ui[1].h = F(0)

(***************************************************************************)
(* The clipboard preview alone: frames of the application in which the     *)
(* clipboard holds a text of any of the lengths around ClipTrim (or none)  *)
(* and the preview is clicked or nothing is.                               *)
(***************************************************************************)
\* a text of n characters, all different
TextOfLength(n) == [i \in 1..n |-> ToString(i)]

ClipLengths == {0, 1, ClipTrim - 1, ClipTrim, ClipTrim + 1, ClipTrim + 2}

PreviewTexts == {TextOfLength(n) : n \in ClipLengths}

ClipShow ==
    \E clip \in PreviewTexts \cup {NoText} :
        \E keys \in {get_keys(keyboard_layout, upper, special)} :
            \E items \in {Render(keys, Labels(keys, upper, special), clip,
                                  available_rect[1], available_rect[2])} :
                \E wants \in BOOLEAN,
                   click \in {NoKey} \cup (IF clip = NoText THEN {} ELSE {ClipboardKey}) :
                    Show(wants, None, click, FALSE, clip, items)

ClipNext ==
    \/ pc = "shown" /\ BeginFrame
    \/ pc = "begin" /\ PumpEvents
    \/ pc = "pumped" /\ ClipShow

ClipSpec == Init /\ [][ClipNext]_vars

\* the text on the clipboard-preview button of a Ui
PreviewLabels(u) == {u[i].items[2].text : i \in {i \in 1..Len(u) : u[i].t = "clipboard"}}

\* the text itself up to ClipTrim characters, else its first ClipTrim
\* characters and one ellipsis marker
Preview(text) ==
    IF Len(text) <= ClipTrim THEN text
    ELSE SubSeq(text, 1, ClipTrim) \o <<Ellipsis>>

\* C15: in every show call that is given a clipboard text, the label of the
\* clipboard-preview button is the text itself when it has at most 20
\* characters and its first 20 characters followed by one ellipsis marker when
\* it has more; a click on the button enqueues one text event with the whole
\* text.
C15_PreviewTrimmed ==
    [][(pc' = "shown" /\ clipboard' # NoText) =>
           /\ PreviewLabels(ui') = {Preview(clipboard')}
           /\ clicked' = ClipboardKey => events' = Append(events, EventText(clipboard'))]_vars

\* the preview of a text of more than ClipTrim characters has been clicked
\* and its event pumped, and now the preview of a text of exactly ClipTrim
\* characters has been clicked
C15_Witness ==
    /\ pc = "shown"
    /\ clicked = ClipboardKey
    /\ Len(clipboard) = ClipTrim
    /\ Len(input_events) = 1
    /\ Len(input_events[1].text) = ClipTrim + 1

(***************************************************************************)
(* safe_rect among the frames of the application: it may be called at any  *)
(* point of a frame, and before the first show call.                       *)
(***************************************************************************)
SafeNext == ClipNext \/ SafeRectCall

SafeSpec == Init /\ [][SafeNext]_vars

\* C16: a safe_rect call returns the screen rectangle it is given when the
\* latest show call rendered nothing or there was none, and otherwise that
\* rectangle with its bottom edge raised by the height of the rectangle the
\* keyboard took in the latest show call; it changes nothing of the Keyboard.
C16_SafeRect ==
    [][safe_rect_call' # safe_rect_call =>
           /\ \A call \in {safe_rect_call'[1]} :
                 IF shown_height = None THEN call.result = call.screen
                 ELSE /\ call.result.min = call.screen.min
                      /\ call.result.max[1] = call.screen.max[1]
                      /\ call.result.max[2] = FSub(call.screen.max[2], shown_height[1])
           /\ UNCHANGED <<input_widget, events, upper, special, keyboard_layout, needed,
                          last_rect>>]_vars

\* safe_rect has been called in the frame after one in which the keyboard was
\* rendered, before that frame's show call, and has returned less than the
\* screen
C16_Witness ==
    /\ pc = "begin"
    /\ shown_height # None
    /\ safe_rect_call # None
    /\ FLt(safe_rect_call[1].result.max[2], safe_rect_call[1].screen.max[2])

(***************************************************************************)
(* Frames that run only on input or on a requested repaint.  The host runs *)
(* a frame after every repaint request, and a frame it has begun runs      *)
(* pump_events and show; input may come at any time or never.  No button   *)
(* is clicked and the clipboard is empty, so the flags stay as constructed *)
(* and show renders the same in every frame in which it renders.           *)
(***************************************************************************)
FirstKeys == get_keys(SampleLayout, FALSE, FALSE)

\* what show renders while nothing has been clicked
FirstUi == Render(FirstKeys, Labels(FirstKeys, FALSE, FALSE), NoText, UnitRect[1], UnitRect[2])

RepaintFrame == pc = "shown" /\ repaint /\ BeginFrame

InputFrame == pc = "shown" /\ BeginFrame

FramePump == pc = "begin" /\ PumpEvents

UnclickedShow ==
    /\ pc = "pumped"
    /\ keyboard_layout = SampleLayout
    /\ ~upper
    /\ ~special
    /\ available_rect = UnitRect
    /\ \E wants \in BOOLEAN, pointer \in BOOLEAN :
           \E focused \in IF wants THEN Focusable ELSE {None} :
               Show(wants, focused, NoKey, pointer, NoText, FirstUi)

RepaintNext == RepaintFrame \/ InputFrame \/ FramePump \/ UnclickedShow

RepaintSpec ==
    /\ Init
    /\ [][RepaintNext]_vars
    /\ WF_vars(RepaintFrame)
    /\ WF_vars(FramePump)
    /\ WF_vars(UnclickedShow)

\* C17: show requests a repaint in exactly the calls in which it renders the
\* keyboard; and if from some point on the host does not want keyboard input
\* in any show call, then from some point on the counter is 0, the keyboard
\* is not rendered and no repaint is requested.
C17_RepaintWhileVisible ==
    /\ [](pc = "shown" => (repaint <=> Rendered))
    /\ <>[](quiet # 0) => <>[](needed = 0 /\ ~Rendered /\ ~repaint)

\* the counter has run down through repainted frames: the 20th show call in
\* a row in which the host does not want keyboard input has rendered nothing
C17_Witness ==
    /\ pc = "shown"
    /\ quiet = HoldFrames
    /\ needed = 0
    /\ ~Rendered
    /\ ~repaint

(***************************************************************************)
(* A host that honours a focus request: when the last show call requested  *)
(* the focus for a widget, the host wants keyboard input in the next show  *)
(* call.  The new frame holds the requests and the pointer of the last     *)
(* show call until its own show call.  The clipboard is empty.             *)
(***************************************************************************)
HonourBegin == BeginFrameWith(focus_requests, pointer_over)

HonourShow ==
    \E keys \in {get_keys(keyboard_layout, upper, special)} :
        \E items \in {Render(keys, Labels(keys, upper, special), NoText,
                              available_rect[1], available_rect[2])} :
            \E wants \in IF focus_requests # <<>> THEN {TRUE} ELSE BOOLEAN,
               pointer \in BOOLEAN, click \in Buttons(keys, NoText) \cup {NoKey} :
                \E focused \in IF wants THEN Focusable ELSE {None} :
                    Show(wants, focused, click, pointer, NoText, items)

HonourNext ==
    \/ pc = "shown" /\ HonourBegin
    \/ pc = "begin" /\ PumpEvents
    \/ pc = "pumped" /\ HonourShow

HonourSpec == Init /\ [][HonourNext]_vars

\* C18: a show call that renders the keyboard with the pointer over it makes,
\* as its last focus request, one for the remembered target; and with a host
\* that honours focus requests, a show call that follows one with the pointer
\* over the keyboard and a target remembered renders the keyboard, with the
\* counter back at 20.
C18_HoverKeepsVisible ==
    [][pc' = "shown" =>
           /\ pointer_over' => Rendered'
           /\ (pointer_over' /\ input_widget' # None) =>
                  /\ focus_requests' # <<>>
                  /\ focus_requests'[Len(focus_requests')] = input_widget'[1]
           /\ (pointer_over /\ input_widget # None) =>
                  (Rendered' /\ needed' = HoldFrames)]_vars

\* a show call without a click has rendered the keyboard with the pointer over
\* it and a target remembered, and has requested the focus for the target
C18_Witness ==
    /\ pc = "shown"
    /\ pointer_over
    /\ input_widget # None
    /\ Rendered
    /\ needed = HoldFrames
    /\ clicked = NoKey
    /\ focus_requests = <<input_widget[1]>>

(***************************************************************************)
(* Any interleaving of frames, show calls with clicks and pump_events      *)
(* calls: pump_events may be called at any point of a frame, any number of *)
(* times, or not at all.  The host wants keyboard input and the pointer is *)
(* not over the keyboard.                                                  *)
(***************************************************************************)
QueueShow ==
    \E clip \in {NoText, ShortClip} :
        \E keys \in {get_keys(keyboard_layout, upper, special)} :
            \E items \in {Render(keys, Labels(keys, upper, special), clip,
                                  available_rect[1], available_rect[2])} :
                \E click \in Buttons(keys, clip) \cup {NoKey} :
                    Show(TRUE, None, click, FALSE, clip, items)

QueueNext == BeginFrame \/ PumpEvents \/ QueueShow

QueueSpec == Init /\ [][QueueNext]_vars

\* events is queue with one event more at its end
Pushed(queue, longer) ==
    /\ Len(longer) = Len(queue) + 1
    /\ SubSeq(longer, 1, Len(queue)) = queue

\* the step hands the whole queue to the host's input, in its order, behind
\* what the input already holds, and leaves the queue empty
Pumped == input_events' = input_events \o events /\ events' = <<>>

\* C19: the queue changes only by a click, which puts its event behind the
\* ones waiting and leaves the host's input alone, or by pump_events, which
\* hands the whole queue, in its order, to the host's input and leaves it
\* empty; the host's input changes only by that or by a new frame, which
\* leaves the queue as it is; a pump_events call with an empty queue changes
\* neither.
C19_QueueFifo ==
    [][/\ events' # events =>
              \/ Pumped
              \/ /\ pc' = "shown"
                 /\ Pushed(events, events')
                 /\ <<events'[Len(events')]>> = ClickEvents(clicked', clipboard')
                 /\ input_events' = input_events
       /\ input_events' # input_events =>
              \/ Pumped /\ events # <<>>
              \/ pc' = "begin" /\ input_events' = <<>> /\ events' = events
       /\ (pc = "begin" /\ pc' = "pumped") => Pumped
       /\ (pc' = pc /\ events = <<>>) => input_events' = input_events]_vars

\* two events clicked in two frames without a pump_events call have been
\* handed to the host's input together, in the order of the clicks
C19_Witness ==
    /\ events = <<>>
    /\ Len(input_events) = 2
    /\ input_events[1].type = "Key"
    /\ input_events[2].type = "Text"
    /\ input_ages = <<1, 0>>

(***************************************************************************)
(* f32 arithmetic, rounded.  An f32 that is zero or normal is              *)
(* <<sign, m, e>>, the number sign * m * 2^e: sign is 1 or -1, m is 0 (the *)
(* zero <<1, 0, 0>>) or has MantissaBits bits.  Every operation gives the  *)
(* f32 nearest to the exact result, ties to the even one.  The operands    *)
(* of the row loop stay away from overflow, underflow and division by zero *)
(* where the available width is positive and the grid has a key.           *)
(***************************************************************************)
MantissaBits == 24

RZero == <<1, 0, 0>>

RECURSIVE BitLen(_)
BitLen(n) == IF n = 0 THEN 0 ELSE 1 + BitLen(n \div 2)

\* the f32 nearest to sign * (n * 2^e + rest): n is a natural number, rest is
\* 0 or, when sticky, a positive amount below 2^e; sticky only where n has
\* more than MantissaBits bits
Round32(sign, n, e, sticky) ==
    IF n = 0 THEN RZero
    ELSE LET k == BitLen(n) - MantissaBits
         IN  IF k <= 0 THEN <<sign, n * 2^(0 - k), e + k>>
             ELSE LET q    == n \div 2^k
                      rem  == n % 2^k
                      half == 2^(k - 1)
                      m    == IF rem > half \/ (rem = half /\ (sticky \/ q % 2 = 1))
                              THEN q + 1 ELSE q
                  IN  IF m = 2^MantissaBits
                      THEN <<sign, 2^(MantissaBits - 1), e + k + 1>>
                      ELSE <<sign, m, e + k>>

\* n as f32, n a natural number
R(n) == Round32(1, n, 0, FALSE)

RIsZero(a) == a[2] = 0

RNeg(a) == IF RIsZero(a) THEN a ELSE <<0 - a[1], a[2], a[3]>>

\* |a| < |b|
RMagLt(a, b) ==
    IF RIsZero(b) THEN FALSE
    ELSE IF RIsZero(a) THEN TRUE
    ELSE a[3] < b[3] \/ (a[3] = b[3] /\ a[2] < b[2])

RLt(a, b) ==
    IF a[1] # b[1] THEN a[1] < b[1]
    ELSE IF a[1] = 1 THEN RMagLt(a, b) ELSE RMagLt(b, a)

\* f32::max of two numbers
RMax(a, b) == IF RLt(a, b) THEN b ELSE a

\* the sum of two numbers of one sign (same) or the difference of their
\* magnitudes; x is the one of the larger magnitude.  Three more bits are
\* kept of x, and what y loses when it is shifted to the exponent of x is
\* remembered in sticky.
RAddAligned(x, y, same) ==
    LET d      == x[3] - y[3]
        nx     == x[2] * 8
        far    == d > MantissaBits + 3
        ny     == IF far THEN 0 ELSE (y[2] * 8) \div 2^d
        sticky == IF far THEN TRUE ELSE (y[2] * 8) % 2^d # 0
    IN  IF same THEN Round32(x[1], nx + ny, x[3] - 3, sticky)
        ELSE Round32(x[1], nx - ny - (IF sticky THEN 1 ELSE 0), x[3] - 3, sticky)

RAdd(a, b) ==
    IF RIsZero(a) THEN b
    ELSE IF RIsZero(b) THEN a
    ELSE IF RMagLt(a, b) THEN RAddAligned(b, a, a[1] = b[1])
    ELSE RAddAligned(a, b, a[1] = b[1])

RSub(a, b) == RAdd(a, RNeg(b))

\* the product of the two mantissas is taken in halves of 12 bits: hi holds
\* what is above its lowest 24 bits, lo those 24 bits
RMul(a, b) ==
    IF RIsZero(a) \/ RIsZero(b) THEN RZero
    ELSE LET a1  == a[2] \div 4096
             a0  == a[2] % 4096
             b1  == b[2] \div 4096
             b0  == b[2] % 4096
             mid == a1 * b0 + a0 * b1
             low == a0 * b0 + (mid % 4096) * 4096
             hi  == a1 * b1 + mid \div 4096 + low \div 2^24
             lo  == low % 2^24
         IN  Round32(a[1] * b[1], hi * 4 + lo \div 2^22, a[3] + b[3] + 22,
                     lo % 2^22 # 0)

\* long division: k more bits of the quotient q, rem < d is what is left
RECURSIVE DivBits(_, _, _, _)
DivBits(rem, d, k, q) ==
    IF k = 0 THEN <<q, rem>>
    ELSE IF 2 * rem >= d THEN DivBits(2 * rem - d, d, k - 1, 2 * q + 1)
    ELSE DivBits(2 * rem, d, k - 1, 2 * q)

\* a / b, b not zero
RDiv(a, b) ==
    IF RIsZero(a) THEN RZero
    ELSE CHOOSE r \in {Round32(a[1] * b[1], qr[1], a[3] - b[3] - (MantissaBits + 2),
                               qr[2] # 0) :
                           qr \in {DivBits(a[2] % b[2], b[2], MantissaBits + 2,
                                           a[2] \div b[2])}} : TRUE

\* the f32 nearest to a fraction that is not negative: what a literal or a
\* constant expression of the source is
ToF32(a) == RDiv(R(a[1]), R(a[2]))

RECURSIVE RSumFrom(_, _)
\* Iterator::sum: from 0.0, front to back
RSumFrom(s, acc) == IF s = <<>> THEN acc ELSE RSumFrom(Tail(s), RAdd(acc, s[1]))

RSum(s) == RSumFrom(s, RZero)

(***************************************************************************)
(* The horizontal geometry and the row loop (lib.rs 140, 149-150,          *)
(* 159-188) in f32, operation by operation.                                *)
(***************************************************************************)
SPACE_BETWEEN_KEYS_f32 == ToF32(SPACE_BETWEEN_KEYS)

width_relative_f32(key) == ToF32(width_relative(key))

row_len_f32(row) == R(Len(row))

row_buttons_width_f32(row) == RSum([i \in 1..Len(row) |-> width_relative_f32(row[i])])

RowUnits_f32(row) ==
    RAdd(row_buttons_width_f32(row),
         RMul(RAdd(row_len_f32(row), R(1)), SPACE_BETWEEN_KEYS_f32))

RECURSIVE ReduceMax_f32(_)
ReduceMax_f32(s) ==
    IF Len(s) = 1 THEN s[1]
    ELSE RMax(ReduceMax_f32(SubSeq(s, 1, Len(s) - 1)), s[Len(s)])

widest_row_f32(keys) ==
    IF keys = <<>> THEN RZero
    ELSE ReduceMax_f32([i \in 1..Len(keys) |-> RowUnits_f32(keys[i])])

\* the values show computes before the row loop, the horizontal ones
Geometry_f32(keys, available_width) ==
    CHOOSE g \in {[widest_row |-> widest,
                   available_width |-> available_width,
                   button_width |-> width,
                   horizontal_space |-> RMul(width, SPACE_BETWEEN_KEYS_f32)] :
                      widest \in {widest_row_f32(keys)},
                      width \in {RDiv(available_width, widest_row_f32(keys))}} : TRUE

row_total_width_f32(row, g) ==
    RAdd(RMul(row_buttons_width_f32(row), g.button_width),
         RMul(RAdd(row_len_f32(row), R(1)), g.horizontal_space))

row_total_relative_width_f32(row, g) == RDiv(row_total_width_f32(row, g), g.button_width)

space_relative_width_f32(row, g) ==
    IF space_buttons_count(row) = 0 THEN RZero
    ELSE RDiv(RSub(g.widest_row, row_total_relative_width_f32(row, g)),
              R(space_buttons_count(row)))

edge_space_f32(row, g) ==
    IF space_buttons_count(row) = 0
    THEN RAdd(RDiv(RSub(g.available_width, row_total_width_f32(row, g)), R(2)),
              g.horizontal_space)
    ELSE g.horizontal_space

KeyWidth_f32(key, space_width, g) ==
    IF key.kind = "Space" THEN RMul(g.button_width, space_width)
    ELSE RMul(g.button_width, width_relative_f32(key))

\* one row as the row loop gives it to the Ui: the leading space, the
\* space between and after the keys, and the width of every key
RowItems_f32(row, g) ==
    CHOOSE r \in {[row |-> row,
                   edge_space |-> edge_space_f32(row, g),
                   horizontal_space |-> g.horizontal_space,
                   available_width |-> g.available_width,
                   widths |-> [i \in 1..Len(row) |-> KeyWidth_f32(row[i], space_width, g)]] :
                      space_width \in {space_relative_width_f32(row, g)}} : TRUE

\* the row loop: an empty row is skipped
RECURSIVE RowLoop_f32(_, _, _)
RowLoop_f32(i, keys, g) ==
    IF i > Len(keys) THEN <<>>
    ELSE (IF keys[i] = <<>> THEN <<>> ELSE <<RowItems_f32(keys[i], g)>>)
         \o RowLoop_f32(i + 1, keys, g)

Render_f32(keys, available_width) ==
    CHOOSE rows \in {RowLoop_f32(1, keys, g) :
                        g \in {Geometry_f32(keys, available_width)}} : TRUE

(***************************************************************************)
(* The layout in f32: any grid within the bounds that has a key, and any   *)
(* available rectangle of a positive width that is a whole number; the     *)
(* host wants keyboard input and nothing is clicked.                       *)
(***************************************************************************)
HasKey(grid) == \E i \in 1..Len(grid) : grid[i] # <<>>

KeyedGrids == {g \in Grids : HasKey(g)}

WideRects == {<<F(w), F(h)>> : w \in 1..(MaxAvail + 1), h \in 0..MaxAvail}

RoundInit == InitWith({[m \in Modes |-> g] : g \in KeyedGrids}, WideRects)

RoundedShow ==
    /\ pc = "begin"
    /\ \E clip \in {NoText, ShortClip} :
           \E keys \in {get_keys(keyboard_layout, upper, special)} :
               \E items \in {Render(keys, Labels(keys, upper, special), clip,
                                     available_rect[1], available_rect[2])} :
                   \E rounded \in {Render_f32(keys, ToF32(available_rect[1]))} :
                       ShowRounded(TRUE, None, NoKey, FALSE, clip, items, rounded)

RoundSpec == RoundInit /\ [][RoundedShow]_vars

\* the rows of ui_f32 without a Space key
SpacelessRows == {j \in 1..Len(ui_f32) : space_buttons_count(ui_f32[j].row) = 0}

\* C20, exact: for a grid with at least one non-empty row and a positive
\* available width, with the arithmetic of the row loop taken as exact, every
\* Space key is at least 0 wide, the leading space of every row without a
\* Space key is at least the horizontal space, and no row is wider than the
\* available width.
C20_ExactPaddings ==
    (Rendered /\ HasKey(Grid) /\ FLt(F(0), AvailableWidth)) =>
        \A i \in UiRows :
            \A items \in {ui[i].items} :
                /\ \A k \in SpaceButtons(items) : ~FLt(items[k].w, F(0))
                /\ ~HasSpaceKey(items) => ~FLt(Leading(items), Trailing(items))
                /\ ~FLt(AvailableWidth, RowSum(items))

\* C20 as stated, of the values the code computes in f32: for a grid with at
\* least one non-empty row and a positive available width, every Space key's
\* computed width is >= 0 and every space-less row's leading edge space is >=
\* the horizontal spacing.
C20_NoNegativePadding ==
    \A j \in 1..Len(ui_f32) :
        \A r \in {ui_f32[j]} :
            /\ \A i \in 1..Len(r.row) : r.row[i].kind = "Space" => ~RLt(r.widths[i], RZero)
            /\ space_buttons_count(r.row) = 0 => ~RLt(r.edge_space, r.horizontal_space)
=============================================================================
